---- MODULE Spec2Model ----
(***************************************************************************)
(* The song service of backend/routes.py: a Flask application whose        *)
(* handlers read and write one MongoDB collection, db.songs.  Handlers run *)
(* on concurrent threads; every pymongo call is one atomic step on the     *)
(* collection, and the code between two calls touches only the handler's   *)
(* own locals.  Any store call may raise (the server is unreachable, the   *)
(* server rejects the command): each handler step draws ok from BOOLEAN.   *)
(***************************************************************************)
EXTENDS Integers, Sequences, FiniteSets, TLC

(* ---------------------------- bounds ----------------------------------- *)
\* create_song goes on to insert_one only while the collection, with the
\* inserts already under way, holds fewer documents than this
MaxDocs == 3

Threads == {"t1", "t2"}
Ids == {-1, 0, 1}
Titles == {"A", "B"}

(* ---------------------------- documents -------------------------------- *)
\* A Python dict / JSON object is a function from its keys; None and the
\* empty dict are both the empty function (both are falsy).
None == <<>>
Opt(S) == {None} \cup {<<v>> : v \in S}
Field(k, o) == IF o = None THEN None ELSE (k :> o[1])
MkDict(i, t, a) == Field("id", i) @@ Field("title", t) @@ Field("artist", a)
Without(d, k) == [x \in (DOMAIN d) \ {k} |-> d[x]]

\* data/songs.json as loaded at import, here a single record.  Every seed
\* record carries an id, and the list is not empty (insert_many refuses an
\* empty list).
songs_list == << MkDict(<<1>>, <<"A">>, <<"X">>) >>

(* ---------------------------- request bodies --------------------------- *)
\* What the client sent: nothing, bytes that are not JSON, or a JSON value.
\* A JSON string or array is described by whether it contains "id" (as a
\* substring or as an element), which is all the handlers ask of it.
PyNone == [kind |-> "null", hasid |-> FALSE, val |-> None]
NotObjects ==
    {PyNone,
     [kind |-> "number", hasid |-> FALSE, val |-> None],
     [kind |-> "array", hasid |-> FALSE, val |-> None]}
    \cup {[kind |-> "string", hasid |-> h, val |-> None] : h \in BOOLEAN}
Object(d) == [kind |-> "object", hasid |-> ("id" \in DOMAIN d), val |-> d]
NoBody == [sent |-> "absent", json |-> PyNone]
Bodies(dicts) ==
    {NoBody, [sent |-> "malformed", json |-> PyNone]}
    \cup {[sent |-> "json", json |-> v] : v \in NotObjects}
    \cup {[sent |-> "json", json |-> Object(d)] : d \in dicts}

\* The objects the clients POST: with and without an id
PostDicts == {MkDict(i, <<"B">>, None) : i \in Opt(Ids)}
\* The objects the clients PUT: with and without an id, which may differ
\* from the id in the path, and with and without another field
PutDicts == {MkDict(i, t, None) : i \in Opt({0}), t \in Opt(Titles)}

\* request.get_json(): the parsed value, or an exception.  Malformed JSON
\* raises BadRequest; a request without a JSON body yields None or raises,
\* depending on the Flask release.
get_json(b) ==
    CASE b.sent = "malformed" -> {[exc |-> "BadRequest", val |-> PyNone]}
      [] b.sent = "absent" -> {[exc |-> "none", val |-> PyNone],
                               [exc |-> "BadRequest", val |-> PyNone]}
      [] OTHER -> {[exc |-> "none", val |-> b.json]}

(* ---------------------------- the store -------------------------------- *)
\* The ObjectId the driver generates for a document inserted without _id:
\* distinct from every one generated before.
ObjectId(coll) == Len(coll) + 1

Matches(doc, i) == "id" \in DOMAIN doc /\ doc["id"] = i

\* The position of the first document the filter {"id": i} matches, in
\* natural (insertion) order, or 0
Index(coll, i) ==
    IF \E k \in 1..Len(coll) : Matches(coll[k], i)
    THEN CHOOSE k \in 1..Len(coll) :
            /\ Matches(coll[k], i)
            /\ \A j \in 1..(k - 1) : ~Matches(coll[j], i)
    ELSE 0

\* A lookup by the store's own identifier instead of by id
find_one_by_oid(coll, i) ==
    IF \E k \in 1..Len(coll) : coll[k]["_id"] = i
    THEN coll[CHOOSE k \in 1..Len(coll) : coll[k]["_id"] = i]
    ELSE None

\* Collection.find_one({"id": i}): the first matching document in natural
\* (insertion) order, or None
find_one(coll, i) == IF Index(coll, i) = 0 THEN None ELSE coll[Index(coll, i)]

\* Collection.count_documents({})
count_documents(coll) == Len(coll)

\* Collection.find({}): every document, in natural order
find(coll) == coll

\* insert_one as it would be under a unique index on id: a second document
\* with the same id is not stored
insert_one_unique(coll, doc) ==
    LET stored == doc @@ ("_id" :> ObjectId(coll))
    IN  IF Index(coll, doc["id"]) # 0
        THEN [coll |-> coll, inserted_id |-> coll[Index(coll, doc["id"])]["_id"]]
        ELSE [coll |-> Append(coll, stored), inserted_id |-> stored["_id"]]

\* Collection.insert_one(doc): the document gets an _id unless it has one
insert_one(coll, doc) ==
    LET stored == doc @@ ("_id" :> ObjectId(coll))
    IN  [coll |-> Append(coll, stored), inserted_id |-> stored["_id"]]

\* A replacement instead of a merge: only the identifiers survive
Set_replace(doc, fields) ==
    fields @@ [k \in (DOMAIN doc) \cap {"_id", "id"} |-> doc[k]]

\* The effect of {"$set": fields} on one document
Set(doc, fields) == fields @@ doc

\* update_one reporting every matched document as modified
update_one_counts(coll, i, fields) ==
    IF Index(coll, i) # 0
    THEN [coll |-> [coll EXCEPT ![Index(coll, i)] = Set(coll[Index(coll, i)], fields)],
          matched_count |-> 1, modified_count |-> 1]
    ELSE [coll |-> coll, matched_count |-> 0, modified_count |-> 0]

\* Collection.update_one({"id": i}, {"$set": fields}): the first matching
\* document gets the fields; modified_count counts it only if it changed.
update_one(coll, i, fields) ==
    IF Index(coll, i) # 0
    THEN LET k == Index(coll, i)
             new == Set(coll[k], fields)
         IN  [coll |-> [coll EXCEPT ![k] = new],
              matched_count |-> 1,
              modified_count |-> IF new = coll[k] THEN 0 ELSE 1]
    ELSE [coll |-> coll, matched_count |-> 0, modified_count |-> 0]

\* parse_json(data) = json.loads(json_util.dumps(data)): an ObjectId
\* becomes {"$oid": "<hex>"}, everything else is kept.
parse_json(data) ==
    [k \in DOMAIN data |->
        IF k = "_id" THEN ("$oid" :> ToString(data[k])) ELSE data[k]]

(* ---------------------------- state ------------------------------------ *)
VARIABLES
    db,      \* db.songs, the documents in natural order
    pc,      \* per thread: "idle", or the store call its handler makes next
    req,     \* per thread: the request being handled
    result,  \* per thread: update_song's local `result`
    out      \* the response the step just taken sent, with its request and
             \* the exception it logged, or Quiet

vars == <<db, pc, req, result, out>>

Request(m, p, b) == [method |-> m, path |-> p, body |-> b]
NoReq == Request("", <<>>, NoBody)
NoResult == [matched_count |-> 0, modified_count |-> 0]

\* What a handler's try block comes to: a response, or an exception
Return(status, body) == [exc |-> "none", status |-> status, body |-> body]
Raise(e) == [exc |-> e, status |-> 0, body |-> None]

\* A handler without the except clause: the exception reaches Flask, which
\* answers with its own error page
Except_missing(o, msg) ==
    IF o.exc = "none" THEN o
    ELSE [exc |-> o.exc, status |-> 500, body |-> ("html" :> "Internal Server Error")]

\* except Exception as e: log it, return jsonify({"error": msg}), 500
Except(o, msg) ==
    IF o.exc = "none" THEN o
    ELSE [exc |-> o.exc, status |-> 500, body |-> ("error" :> msg)]

\* The handler of thread w returns o for request r
Respond(w, r, o) ==
    /\ out' = [thread |-> w, req |-> r, status |-> o.status, body |-> o.body,
               log |-> o.exc]
    /\ pc' = [pc EXCEPT ![w] = "idle"]
    /\ req' = [req EXCEPT ![w] = NoReq]
    /\ result' = [result EXCEPT ![w] = NoResult]

\* No response was sent by the step just taken
Quiet == [thread |-> "", req |-> NoReq, status |-> 0, body |-> None, log |-> "none"]

\* Module import: drop the collection, insert the seed records
RECURSIVE Seed(_)
Seed(k) == IF k = 0 THEN << >> ELSE insert_one(Seed(k - 1), songs_list[k]).coll

Init ==
    /\ db = Seed(Len(songs_list))
    /\ pc = [w \in Threads |-> "idle"]
    /\ req = [w \in Threads |-> NoReq]
    /\ result = [w \in Threads |-> NoResult]
    /\ out = Quiet

(* ---------------------------- routing ---------------------------------- *)
\* <int:id>: werkzeug's IntegerConverter matches digits only, so a negative
\* number in the path matches no route.
IntegerConverter(i) == i >= 0

\* No rule matches: Flask answers 404 itself, no handler runs
not_found(w) ==
    /\ pc[w] = "idle"
    /\ \E m \in {"GET", "PUT"}, i \in Ids, b \in {NoBody} :
          /\ ~IntegerConverter(i)
          /\ Respond(w, Request(m, <<"song", i>>, b),
                     Return(404, ("html" :> "Not Found")))
    /\ UNCHANGED db

(* ---------------------------- handlers --------------------------------- *)
\* GET /health
health_check(w) ==
    /\ pc[w] = "idle"
    /\ Respond(w, Request("GET", <<"health">>, NoBody),
               Return(200, ("status" :> "OK")))
    /\ UNCHANGED db

\* GET /count
count_try(coll, ok) ==
    IF ok THEN Return(200, ("count" :> count_documents(coll)))
    ELSE Raise("PyMongoError")

count(w) ==
    /\ pc[w] = "idle"
    /\ \E ok \in BOOLEAN :
          Respond(w, Request("GET", <<"count">>, NoBody),
                  Except(count_try(db, ok), "Failed to retrieve count"))
    /\ UNCHANGED db

\* GET /song
songs_try(coll, ok) ==
    IF ok
    THEN Return(200, ("songs" :> [k \in 1..Len(find(coll)) |-> parse_json(find(coll)[k])]))
    ELSE Raise("PyMongoError")

songs(w) ==
    /\ pc[w] = "idle"
    /\ \E ok \in BOOLEAN :
          Respond(w, Request("GET", <<"song">>, NoBody),
                  Except(songs_try(db, ok), "Failed to retrieve songs"))
    /\ UNCHANGED db

\* GET /song/<int:id>
get_song_by_id_try(coll, id, ok) ==
    IF ~ok THEN Raise("PyMongoError")
    ELSE LET song == find_one(coll, id)
         IN  IF song # None
             THEN Return(200, parse_json(song))
             ELSE Return(404, ("message" :> ("song with id " \o ToString(id) \o " not found")))

get_song_by_id(w) ==
    /\ pc[w] = "idle"
    /\ \E id \in Ids, ok \in BOOLEAN :
          /\ IntegerConverter(id)
          /\ Respond(w, Request("GET", <<"song", id>>, NoBody),
                     Except(get_song_by_id_try(db, id, ok),
                            "An internal server error occurred"))
    /\ UNCHANGED db

\* The try block has not returned: the handler goes on to its next store call
Pending == Return(0, None)

\* POST /song, up to and including the existence check.  g is what
\* request.get_json() came to.
create_song_try(coll, g, ok) ==
    LET new_song == g.val IN
    CASE g.exc # "none" -> Raise(g.exc)
      [] g.exc = "none" /\ new_song.kind = "null" ->
            Return(400, ("error" :> "Invalid or missing song data"))
      [] g.exc = "none" /\ new_song.kind = "number" ->
            Raise("TypeError")          \* 'id' not in 5
      [] g.exc = "none" /\ new_song.kind \in {"string", "array", "object"}
                        /\ ~new_song.hasid ->
            Return(400, ("error" :> "Invalid or missing song data"))
      [] g.exc = "none" /\ new_song.kind \in {"string", "array"} /\ new_song.hasid ->
            Raise("AttributeError")     \* str and list have no .get
      [] OTHER ->
            LET song_id == new_song.val["id"] IN
            IF ~ok THEN Raise("PyMongoError")
            ELSE IF find_one(coll, song_id) # None
                 THEN Return(302, ("Message" :> ("song with id " \o ToString(song_id)
                                                  \o " already present")))
                 ELSE Pending

create_song(w) ==
    /\ pc[w] = "idle"
    /\ \E b \in Bodies(PostDicts), ok \in BOOLEAN :
        \E g \in get_json(b) :
          LET r == Request("POST", <<"song">>, b)
              o == Except(create_song_try(db, g, ok),
                          "An internal server error occurred during creation")
          IN  IF o = Pending
              THEN /\ Len(db) + Cardinality({t \in Threads : pc[t] = "insert"}) < MaxDocs
                   /\ pc' = [pc EXCEPT ![w] = "insert"]
                   /\ req' = [req EXCEPT ![w] = r]
                   /\ out' = Quiet
                   /\ UNCHANGED result
              ELSE Respond(w, r, o)
    /\ UNCHANGED db

\* POST /song, the insert and the response
create_song_insert_try(coll, new_song, ok) ==
    IF ok
    THEN LET res == insert_one(coll, new_song)
         IN  [coll |-> res.coll,
              o |-> Return(201, ("inserted id" :> ("$oid" :> ToString(res.inserted_id))))]
    ELSE [coll |-> coll, o |-> Raise("PyMongoError")]

create_song_insert(w) ==
    /\ pc[w] = "insert"
    /\ \E ok \in BOOLEAN :
          LET t == create_song_insert_try(db, req[w].body.json.val, ok)
          IN  /\ db' = t.coll
              /\ Respond(w, req[w],
                         Except(t.o, "An internal server error occurred during creation"))

\* The body used as it came, id included
pop_id_kept(update_data) == update_data

\* update_data.pop('id', None)
pop_id(update_data) == Without(update_data, "id")

\* PUT /song/<int:id>, up to and including update_one
update_song_try(coll, id, g, ok) ==
    LET update_data == g.val
        same == [coll |-> coll, result |-> NoResult]
    IN
    CASE g.exc # "none" -> [o |-> Raise(g.exc)] @@ same
      [] g.exc = "none" /\ update_data.kind = "null" ->
            [o |-> Return(400, ("error" :> "Missing update data in request body"))] @@ same
      [] g.exc = "none" /\ update_data.kind \in {"number", "string"} ->
            [o |-> Raise("AttributeError")] @@ same   \* no .pop
      [] g.exc = "none" /\ update_data.kind = "array" ->
            [o |-> Raise("TypeError")] @@ same        \* list.pop('id', None)
      [] OTHER ->
            IF ~ok THEN [o |-> Raise("PyMongoError")] @@ same
            ELSE LET res == update_one(coll, id, pop_id(update_data.val))
                     counts == [matched_count |-> res.matched_count,
                                modified_count |-> res.modified_count]
                 IN  IF res.matched_count = 0
                     THEN [o |-> Return(404, ("message" :> "song not found")),
                           coll |-> res.coll, result |-> counts]
                     ELSE IF res.modified_count = 0
                     THEN [o |-> Return(200, ("message" :> "song found, but nothing updated")),
                           coll |-> res.coll, result |-> counts]
                     ELSE [o |-> Pending, coll |-> res.coll, result |-> counts]

update_song(w) ==
    /\ pc[w] = "idle"
    /\ \E id \in Ids, b \in Bodies(PutDicts), ok \in BOOLEAN :
        \E g \in get_json(b) :
          LET r == Request("PUT", <<"song", id>>, b)
              t == update_song_try(db, id, g, ok)
              o == Except(t.o, "An internal server error occurred during update")
          IN  /\ IntegerConverter(id)
              /\ db' = t.coll
              /\ IF o = Pending
                 THEN /\ pc' = [pc EXCEPT ![w] = "refetch"]
                      /\ req' = [req EXCEPT ![w] = r]
                      /\ result' = [result EXCEPT ![w] = t.result]
                      /\ out' = Quiet
                 ELSE Respond(w, r, o)

\* PUT /song/<int:id>, the re-fetch and the response
update_song_refetch_try(coll, id, ok) ==
    IF ok THEN Return(201, parse_json(find_one(coll, id)))
    ELSE Raise("PyMongoError")

update_song_refetch(w) ==
    /\ pc[w] = "refetch"
    /\ \E ok \in BOOLEAN :
          Respond(w, req[w],
                  Except(update_song_refetch_try(db, req[w].path[2], ok),
                         "An internal server error occurred during update"))
    /\ UNCHANGED db

Next ==
    \E w \in Threads :
        \/ not_found(w)
        \/ health_check(w)
        \/ count(w)
        \/ songs(w)
        \/ get_song_by_id(w)
        \/ create_song(w)
        \/ create_song_insert(w)
        \/ update_song(w)
        \/ update_song_refetch(w)

Spec == Init /\ [][Next]_vars

(* ---------------------------- properties ------------------------------- *)
\* The step taken is the first step of a handler on thread w
FirstStep(w) == pc[w] = "idle" /\ (out'.thread = w \/ pc'[w] # "idle")
\* The step taken is the second step of a handler on thread w
SecondStep(w) == pc[w] # "idle" /\ out'.thread = w
\* The request thread w is handling in the step taken
Handled(w) == IF out'.thread = w THEN out'.req ELSE req'[w]
\* No store call of the step taken on thread w raised
StoreWorked(w) == out'.thread = w => out'.log # "PyMongoError"

IsObject(b) == b.sent = "json" /\ b.json.kind = "object"
PathId(r) == r.path[2]
IdSeq(coll) == [k \in 1..Len(coll) |-> coll[k]["id"]]
WithId(coll, i) == {k \in 1..Len(coll) : coll[k]["id"] = i}
\* The fields an update body names, id aside, that differ from the document
Changes(doc, body) ==
    {f \in (DOMAIN body) \ {"id"} : f \notin DOMAIN doc \/ doc[f] # body[f]}

\* C1: in every reachable state the collection holds at most one record
\* for each value of id.
C1_UniqueIds == \A i \in Ids : Cardinality(WithId(db, i)) <= 1

\* C9: the existence check and the insert of POST /song are separate store
\* calls: a handler that has passed the check inserts its record and answers
\* 201 whatever the collection holds by then, also when another request has
\* inserted a record with the same id in between.
C9_CheckThenInsert ==
    [][\A w \in Threads :
          (SecondStep(w) /\ pc[w] = "insert" /\ out'.log = "none")
          => /\ out'.status = 201
             /\ Len(db') = Len(db) + 1
             /\ \A k \in 1..Len(db) : db'[k] = db[k]
             /\ Without(db'[Len(db')], "_id") = req[w].body.json.val]_vars

\* Two POST /song with the same id, absent from the collection, have both
\* passed the check and both inserted: the second has just answered 201 and
\* the collection holds two records with that id.
C9_Witness ==
    /\ out.req.method = "POST"
    /\ out.status = 201
    /\ Cardinality(WithId(db, out.req.body.json.val["id"])) = 2

\* C2: no step of PUT /song/{id} changes the id of any stored record,
\* whatever the body holds: the ids in the collection, record by record,
\* are the same after the step as before it.
C2_PutKeepsIds ==
    [][\A w \in Threads :
          ((FirstStep(w) \/ SecondStep(w)) /\ Handled(w).method = "PUT")
          => IdSeq(db') = IdSeq(db)]_vars

\* A PUT whose body carries an id other than the one in the path has
\* changed the record and answered.
C2_Witness ==
    /\ out.req.method = "PUT"
    /\ out.status = 201
    /\ "id" \in DOMAIN out.req.body.json.val
    /\ out.req.body.json.val["id"] # PathId(out.req)

\* C3: POST /song whose id is the id of a record in the collection answers
\* 302, inserts nothing and leaves every record as it was.
C3_DuplicateIs302 ==
    [][\A w \in Threads :
          LET r == Handled(w) IN
          (/\ FirstStep(w)
           /\ r.method = "POST"
           /\ IsObject(r.body)
           /\ "id" \in DOMAIN r.body.json.val
           /\ WithId(db, r.body.json.val["id"]) # {}
           /\ StoreWorked(w))
          => /\ out'.thread = w
             /\ out'.status = 302
             /\ db' = db]_vars

\* A POST with the id of a stored record and another title was answered 302.
C3_Witness ==
    /\ out.req.method = "POST"
    /\ out.status = 302
    /\ find_one(db, out.req.body.json.val["id"])["title"]
          # out.req.body.json.val["title"]

\* C4: once POST /song with an id has answered 201, a GET /song/{id} that
\* follows it answers 200 with exactly the fields of the POST body plus
\* the store's identifier, and never 404.
C4_GetAfterPost ==
    [][(/\ out.req.method = "POST"
        /\ out.status = 201
        /\ out'.req.method = "GET"
        /\ out'.req.path = <<"song", out.req.body.json.val["id"]>>
        /\ out'.log # "PyMongoError")
       => /\ out'.status = 200
          /\ Without(out'.body, "_id") = out.req.body.json.val]_vars

\* The first step of PUT /song/{id} on thread w, with an object for a body,
\* whose update_one matched a record and raised nothing
PutMatched(w) ==
    /\ FirstStep(w)
    /\ Handled(w).method = "PUT"
    /\ IsObject(Handled(w).body)
    /\ Index(db, PathId(Handled(w))) # 0
    /\ StoreWorked(w)

\* The update of a PUT that changes a field is a merge into the matched
\* record: the fields the body names, id aside, get the body's values, the
\* other fields keep theirs, no other record changes, and the handler goes
\* on to the re-fetch.
PutMerges(w) ==
    LET r == Handled(w)
        u == r.body.json.val
        k == Index(db, PathId(r))
    IN  (PutMatched(w) /\ Changes(db[k], u) # {})
        => /\ pc'[w] = "refetch"
           /\ Len(db') = Len(db)
           /\ \A j \in 1..Len(db) : j # k => db'[j] = db[j]
           /\ DOMAIN db'[k] = (DOMAIN db[k]) \cup ((DOMAIN u) \ {"id"})
           /\ \A f \in DOMAIN db'[k] :
                 db'[k][f] = IF f \in (DOMAIN u) \ {"id"} THEN u[f] ELSE db[k][f]

\* The re-fetch of a PUT, when it raises nothing
PutRefetched(w) == SecondStep(w) /\ pc[w] = "refetch" /\ out'.log = "none"

\* C5, as claimed: a PUT that matches a record and changes a field is a
\* merge, and it answers 201 with the record as this request updated it:
\* the fields its body names hold the body's values in the response.
C5_MergeAndOwnRecord ==
    [][\A w \in Threads :
          /\ PutMerges(w)
          /\ PutRefetched(w)
             => /\ out'.status = 201
                /\ \A f \in (DOMAIN req[w].body.json.val) \ {"id"} :
                      out'.body[f] = req[w].body.json.val[f]]_vars

\* C5, amended: a PUT that matches a record and changes a field is a
\* merge, and it answers 201 with the record as the re-fetch finds it in the
\* collection, which another PUT to the same id may have changed since.
C5_MergeAndRefetchedRecord ==
    [][\A w \in Threads :
          /\ PutMerges(w)
          /\ PutRefetched(w)
             => /\ out'.status = 201
                /\ out'.body = parse_json(db[Index(db, PathId(req[w]))])
                /\ db' = db]_vars

\* A PUT naming title only was answered 201 with the new title and with the
\* artist the record had.
C5_Witness ==
    /\ out.req.method = "PUT"
    /\ out.status = 201
    /\ DOMAIN out.req.body.json.val = {"title"}
    /\ out.body["title"] = out.req.body.json.val["title"]
    /\ out.body["artist"] = "X"

\* A PUT that matches a record and whose body, id aside, would change no
\* field answers 200 "song found, but nothing updated" and changes nothing.
PutNothing(w) ==
    LET r == Handled(w)
        k == Index(db, PathId(r))
    IN  (PutMatched(w) /\ Changes(db[k], r.body.json.val) = {})
        => /\ out'.thread = w
           /\ out'.status = 200
           /\ out'.body = ("message" :> "song found, but nothing updated")
           /\ db' = db

\* C6, as claimed: a PUT that would change nothing answers 200 and changes
\* nothing, and so a PUT answered 201 that is repeated with the same body is
\* answered 200.
C6_NothingUpdatedAndRepeat ==
    [][\A w \in Threads :
          /\ PutNothing(w)
          /\ (/\ out.req.method = "PUT"
              /\ out.status = 201
              /\ FirstStep(w)
              /\ Handled(w) = out.req
              /\ StoreWorked(w))
             => (out'.thread = w /\ out'.status = 200)]_vars

\* C6, amended: a PUT that would change nothing answers 200 and changes
\* nothing, and a PUT answered 201 that is repeated with the same body is
\* answered 200 if the first answer showed the body's values, that is, if
\* no other PUT to that id overwrote them before the re-fetch.
C6_NothingUpdated ==
    [][\A w \in Threads :
          /\ PutNothing(w)
          /\ (/\ out.req.method = "PUT"
              /\ out.status = 201
              /\ \A f \in (DOMAIN out.req.body.json.val) \ {"id"} :
                    out.body[f] = out.req.body.json.val[f]
              /\ FirstStep(w)
              /\ Handled(w) = out.req
              /\ StoreWorked(w))
             => (out'.thread = w /\ out'.status = 200)]_vars

\* A PUT whose body holds nothing but an id was answered 200.
C6_Witness ==
    /\ out.req.method = "PUT"
    /\ out.status = 200
    /\ IsObject(out.req.body)
    /\ DOMAIN out.req.body.json.val = {"id"}

\* C7: POST /song with a body that is not a JSON object holding an id
\* answers 400 "Invalid or missing song data" and changes nothing.
C7_InvalidBodyIs400 ==
    [][(/\ out'.req.method = "POST"
        /\ ~(IsObject(out'.req.body) /\ "id" \in DOMAIN out'.req.body.json.val))
       => /\ out'.status = 400
          /\ out'.body = ("error" :> "Invalid or missing song data")
          /\ db' = db]_vars

\* The message each endpoint answers a failure with
FixedMessage(r) ==
    CASE r.path = <<"count">> -> "Failed to retrieve count"
      [] r.method = "GET" /\ r.path = <<"song">> -> "Failed to retrieve songs"
      [] r.method = "GET" /\ Len(r.path) = 2 -> "An internal server error occurred"
      [] r.method = "POST" -> "An internal server error occurred during creation"
      [] OTHER -> "An internal server error occurred during update"

\* C8: a request during which a store call fails is answered 500 with its
\* endpoint's own message, its thread is free for the next request, and the
\* response that comes next, if no call fails for it, is not a 500.
C8_StoreFailureIs500 ==
    /\ [](out.log = "PyMongoError"
          => /\ out.status = 500
             /\ out.body = ("error" :> FixedMessage(out.req))
             /\ pc[out.thread] = "idle")
    /\ [][(out.log = "PyMongoError" /\ out'.thread # "" /\ out'.log = "none")
          => out'.status \in {200, 201, 302, 400, 404}]_vars

\* The re-fetch of a PUT failed and the request was answered 500.
C8_Witness ==
    /\ out.log = "PyMongoError"
    /\ out.req.method = "PUT"
    /\ out.status = 500
    /\ \E k \in 1..Len(db) : db[k]["id"] = 1 /\ db[k]["title"] = "B"

\* C10: a request answered 500 has had no effect: the step that answers
\* leaves the collection as it was, and no earlier store call of the
\* request has modified it.
C10_NoPartialEffect ==
    [][out'.status = 500
       => /\ db' = db
          /\ result[out'.thread].modified_count = 0]_vars

====
